---- MODULE Spec2Model ----
(***************************************************************************)
(* zod-i18n: the error map that turns a validation issue into calls of a   *)
(* translation renderer t(key, params), in its two source variants         *)
(*   "core" : src/packages/core/src/index.ts                               *)
(*   "rich" : src/unnamed/part_001                                         *)
(* and the two error-extraction helpers of src/unnamed/part_000.           *)
(***************************************************************************)
EXTENDS Integers, Sequences, FiniteSets, TLC

\* ------------------------------------------------------------------ bounds
MaxPathLen == 2      \* longest issue.path explored
MaxKeys == 2         \* longest issue.keys / issue.values / union branch list
MaxIssues == 3       \* longest issues list of a validation error
MaxChanges == 2      \* caller mutations of option / default renderer per run

\* ------------------------------------------------- JavaScript values
\* A JavaScript value: kind is the shape the code probes (typeof, === null,
\* instanceof Date, Number.isNaN, Number.isInteger), s its text, n its number.
JS(k, s, n) == [kind |-> k, s |-> s, n |-> n]
Undef == JS("undefined", "", 0)
Null == JS("null", "", 0)
Str(s) == JS("string", s, 0)
Num(n) == JS("number", "", n)
Float(s) == JS("float", s, 0)
NaNv == JS("nan", "", 0)
Infinity == JS("infinity", "", 0)
BigInt(n) == JS("bigint", "", n)
Bool(b) == JS("boolean", IF b THEN "true" ELSE "false", 0)
DateOf(n) == JS("date", "", n)
InvalidDate == JS("baddate", "", 0)
ArrayV == JS("array", "", 0)
ObjectV == JS("object", "", 0)

\* typeof value
TypeOf(v) ==
  CASE v.kind \in {"number", "float", "nan", "infinity"} -> "number"
    [] v.kind \in {"null", "date", "baddate", "array", "object"} -> "object"
    [] OTHER -> v.kind

\* String(value), as Array.prototype.join and template literals apply it
\* to one element (join renders undefined and null as the empty string).
ToStr(v) ==
  CASE v.kind = "string" -> v.s
    [] v.kind \in {"number", "bigint"} -> ToString(v.n)
    [] v.kind \in {"float", "boolean"} -> v.s
    [] v.kind = "nan" -> "NaN"
    [] v.kind = "infinity" -> "Infinity"
    [] v.kind = "date" -> "Date(" \o ToString(v.n) \o ")"
    [] v.kind = "baddate" -> "Invalid Date"
    [] v.kind = "object" -> "[object Object]"
    [] OTHER -> ""

\* `${value}` in a template literal: undefined and null keep their names.
Template(v) ==
  CASE v.kind = "undefined" -> "undefined"
    [] v.kind = "null" -> "null"
    [] OTHER -> ToStr(v)

\* Boolean(value), as .filter(Boolean) and the ?: tests use it.
Truthy(v) ==
  CASE v.kind \in {"undefined", "null", "nan"} -> FALSE
    [] v.kind = "string" -> v.s # ""
    [] v.kind \in {"number", "bigint"} -> v.n # 0
    [] v.kind = "boolean" -> v.s = "true"
    [] OTHER -> TRUE

RECURSIVE Join(_, _)
\* array.join(separator) over already converted strings
Join(strs, sep) ==
  IF Len(strs) = 0 THEN ""
  ELSE IF Len(strs) = 1 THEN strs[1]
  ELSE strs[1] \o sep \o Join(Tail(strs), sep)

\* joinValues(array, separator): strings single-quoted, the rest as join
\* renders them (a bigint renders as its digits in both variants).
joinValues(array, separator) ==
  Join([i \in 1..Len(array) |->
          IF array[i].kind = "string" THEN "'" \o array[i].s \o "'"
          ELSE ToStr(array[i])], separator)

\* JSON.stringify(value, jsonStringifyReplacer)
jsonStringify(v) ==
  CASE v.kind = "undefined" -> Undef
    [] v.kind = "string" -> Str("\"" \o v.s \o "\"")
    [] v.kind = "bigint" -> Str("\"" \o ToString(v.n) \o "\"")
    [] v.kind \in {"number", "float", "boolean"} -> Str(ToStr(v))
    [] v.kind = "array" -> Str("[]")
    [] v.kind = "object" -> Str("{}")
    [] OTHER -> Str("null")

\* getReceivedDataType(data)
getReceivedDataType(data) ==
  CASE data.kind = "nan" -> "NaN"
    [] data.kind = "number" -> "number"
    [] data.kind \in {"float", "infinity"} -> "float"
    [] data.kind = "array" -> "array"
    [] data.kind = "null" -> "null"
    [] data.kind \in {"date", "baddate"} -> "Date"
    [] OTHER -> TypeOf(data)

\* String.prototype.toLocaleLowerCase on the tags getReceivedDataType returns
toLocaleLowerCase(s) ==
  CASE s = "NaN" -> "nan"
    [] s = "Date" -> "date"
    [] OTHER -> s

\* Number(value) for a numeric or bigint bound
NumberOf(v) == IF v.kind \in {"number", "bigint"} THEN v.n ELSE 0

\* ------------------------------------------------- option and configuration
\* An own property of an object literal: present (has) with a value, or absent.
Field(v) == [has |-> TRUE, val |-> v]
Absent == [has |-> FALSE, val |-> Undef]

defaultNs == Str("zod")

\* HandlePathOption | false, as the caller writes it
HandlePathFalse == [off |-> TRUE, context |-> Absent, ns |-> Absent, keyPrefix |-> Absent]
HandlePathOf(c, n, k) == [off |-> FALSE, context |-> c, ns |-> n, keyPrefix |-> k]
HandlePathOptions ==
  { HandlePathFalse,
    HandlePathOf(Absent, Absent, Field(Str("form"))),
    HandlePathOf(Field(Str("at")), Field(Str("paths")), Absent) }

\* the renderers a caller may supply as option.t, and the values i18next.t takes
SuppliedRenderers == {"tA"}
DefaultRenderers == {"i18next", "i18next2"}

\* ZodI18nMapOption | undefined.  given = FALSE is makeZodI18nMap() with no
\* argument; t.val is a renderer name; ns may be present and undefined.
NoOption ==
  [given |-> FALSE, t |-> [has |-> FALSE, val |-> ""], ns |-> Absent,
   handlePath |-> [has |-> FALSE, val |-> HandlePathOf(Absent, Absent, Absent)]]
Options ==
  {NoOption} \cup
  [given : {TRUE},
   t : {[has |-> FALSE, val |-> ""]} \cup [has : {TRUE}, val : SuppliedRenderers],
   ns : {Absent, Field(Undef), Field(Str("app"))},
   handlePath : {[has |-> FALSE, val |-> HandlePathOf(Absent, Absent, Absent)]}
                \cup [has : {TRUE}, val : HandlePathOptions]]

\* { ...a, ...b } for one property: b's own property wins when present
Spread(a, b) == IF b.has THEN b.val ELSE a

\* option?.ns ?? defaultNs
NsOrDefault(option) ==
  IF option.given /\ option.ns.has /\ option.ns.val.kind \notin {"undefined", "null"}
  THEN option.ns.val ELSE defaultNs

\* const { t, ns, handlePath } = { t: i18next.t, ns: defaultNs, ...option,
\*                                 handlePath: ... }
\* evaluated inside the returned closure, from the option object and
\* i18next.t as they are when the closure runs.
Resolve(option, i18nextT) ==
  [t |-> IF option.given /\ option.t.has THEN option.t.val ELSE i18nextT,
   ns |-> IF option.given THEN Spread(defaultNs, option.ns) ELSE defaultNs,
   handlePath |->
     IF option.given /\ option.handlePath.has /\ option.handlePath.val.off
     THEN [on |-> FALSE, context |-> Undef, ns |-> Undef, keyPrefix |-> Undef]
     ELSE LET hp == IF option.given /\ option.handlePath.has
                    THEN option.handlePath.val
                    ELSE HandlePathOf(Absent, Absent, Absent)
          IN [on |-> TRUE,
              context |-> Spread(Str("with_path"), hp.context),
              ns |-> Spread(NsOrDefault(option), hp.ns),
              keyPrefix |-> Spread(Undef, hp.keyPrefix)]]

\* ------------------------------------------------- the renderer
\* t(key, params), the external translation function.  "i18next" has no
\* catalog entry for any key and falls back to params.defaultValue (to the
\* key when that is undefined); the others answer from their own catalog.
Render(t, key, params) ==
  IF t = "i18next"
  THEN IF "defaultValue" \in DOMAIN params /\ params["defaultValue"].kind # "undefined"
       THEN ToStr(params["defaultValue"]) ELSE key
  ELSE t \o ":" \o key

\* one recorded call of the renderer
Call(role, t, key, params) == [role |-> role, t |-> t, key |-> key, params |-> params]

\* an object literal { name: value }
P(name, value) == name :> value

\* the empty object literal {}
EmptyObj == [name \in {} |-> Undef]

RECURSIVE Obj(_)
\* { ...f1, ...f2, ... }: a later fragment overrides an earlier one
Obj(frags) ==
  IF Len(frags) = 0 THEN EmptyObj
  ELSE frags[Len(frags)] @@ Obj(SubSeq(frags, 1, Len(frags) - 1))

\* ------------------------------------------------- issues
\* issue.params?.i18n: undefined, a string, a record (with its key and values
\* properties), or any other value
NoI18n ==
  [kind |-> "undefined", s |-> "", key |-> Absent,
   values |-> [kind |-> "absent", rec |-> EmptyObj]]
I18nString(s) == [NoI18n EXCEPT !.kind = "string", !.s = s]
I18nRecord(key, values) == [NoI18n EXCEPT !.kind = "record", !.key = key, !.values = values]
I18nOther == [NoI18n EXCEPT !.kind = "other"]
ValuesRecord(rec) == [kind |-> "record", rec |-> rec]
ValuesAbsent == [kind |-> "absent", rec |-> EmptyObj]
ValuesOther == [kind |-> "other", rec |-> EmptyObj]

\* a raw issue as the validation library hands it to the error map; a field
\* an issue code does not carry is undefined (or empty)
BaseIssue ==
  [code |-> "", message |-> Undef, path |-> [has |-> FALSE, segs |-> <<>>],
   expected |-> Undef, received |-> Undef, input |-> Undef,
   traits |-> {}, values |-> <<>>, keys |-> <<>>, branches |-> <<>>,
   format |-> "", prefix |-> Undef, suffix |-> Undef,
   origin |-> "", minimum |-> Undef, maximum |-> Undef,
   inclusive |-> FALSE, exact |-> FALSE,
   i18n |-> NoI18n, divisor |-> Undef]

\* issue.inst instanceof Class (the library answers from the schema's traits,
\* so a discriminated union is an instance of ZodUnion as well)
InstanceOf(issue, class) == class \in issue.traits

\* en().localeError(issue), the library's English baseline message
enLocaleError(issue) == "Invalid input (" \o issue.code \o ")"

\* core: message = issue.message ?? "Invalid value"
FallbackCore(issue) ==
  IF issue.message.kind \in {"undefined", "null"}
  THEN "Invalid value" ELSE issue.message.s

\* rich: message = (typeof errorMsg === "string" ? errorMsg : errorMsg?.message) ?? ""
FallbackRich(issue) == enLocaleError(issue)

\* let message = ...: the generic fallback computed before the switch
Fallback(variant, issue) ==
  IF variant = "core" THEN FallbackCore(issue) ELSE FallbackRich(issue)

\* issue.path.join(".")
PathJoin(issue) ==
  Join([i \in 1..Len(issue.path.segs) |-> ToStr(issue.path.segs[i])], ".")

\* core: issue?.path && !!handlePath (an empty array is truthy)
PathHandledCore(cfg, issue) == issue.path.has /\ cfg.handlePath.on

\* rich: (issue.path?.length ?? 0) > 0 && !!handlePath
PathHandledRich(cfg, issue) ==
  (IF issue.path.has THEN Len(issue.path.segs) ELSE 0) > 0 /\ cfg.handlePath.on

\* the test guarding the path lookup
PathHandled(variant, cfg, issue) ==
  IF variant = "core" THEN PathHandledCore(cfg, issue) ELSE PathHandledRich(cfg, issue)

\* [handlePath.keyPrefix, issue.path.join(".")].filter(Boolean).join(".")
PathKey(cfg, issue) ==
  LET parts == <<cfg.handlePath.keyPrefix, Str(PathJoin(issue))>>
      kept == SelectSeq(parts, Truthy)
  IN Join([i \in 1..Len(kept) |-> ToStr(kept[i])], ".")

\* the path lookup: t(key, { ns: handlePath.ns, defaultValue: path.join(".") })
PathCall(cfg, issue) ==
  Call("path", cfg.t, PathKey(cfg, issue),
       Obj(<<P("ns", cfg.handlePath.ns), P("defaultValue", Str(PathJoin(issue)))>>))

\* const path = ... ? { context, path: t(...) } : {}
PathFragment(variant, cfg, issue) ==
  IF PathHandled(variant, cfg, issue)
  THEN LET c == PathCall(cfg, issue)
       IN Obj(<<P("context", cfg.handlePath.context),
                P("path", Str(Render(c.t, c.key, c.params)))>>)
  ELSE EmptyObj

\* getKeyAndValues(param, defaultKey)
getKeyAndValues(param, defaultKey) ==
  IF param.kind = "string" THEN [key |-> param.s, values |-> EmptyObj]
  ELSE IF param.kind = "record"
  THEN [key |-> IF param.key.has /\ param.key.val.kind = "string"
                THEN param.key.val.s ELSE defaultKey,
        values |-> IF param.values.kind = "record" THEN param.values.rec ELSE EmptyObj]
  ELSE [key |-> defaultKey, values |-> EmptyObj]

\* ------------------------------------------------- the switch on issue.code
\* Each case gives the renderer calls it makes, in the order they run (the
\* nested lookups are arguments of the main call, so they run first); the
\* last one is the main call, whose result becomes the message.
Rendered(c) == Str(Render(c.t, c.key, c.params))
Main(cfg, key, frags) == Call("main", cfg.t, key, Obj(frags))
CommonParams(cfg, message, path) ==
  <<P("ns", cfg.ns), P("defaultValue", Str(message)), path>>

\* { ns, defaultValue: message, ...path }
Plain(cfg, key, message, path) == <<Main(cfg, key, CommonParams(cfg, message, path))>>

\* t(`types.${name}`, { defaultValue: name, ns })
TypeCall(cfg, name) ==
  Call("type", cfg.t, "types." \o Template(name),
       Obj(<<P("defaultValue", name), P("ns", cfg.ns)>>))

\* the final else of case "invalid_type"
InvalidTypeElse(cfg, message, path, expected, received) ==
  LET e == TypeCall(cfg, expected)
      r == TypeCall(cfg, received)
  IN <<e, r, Main(cfg, "errors.invalid_type",
                  <<P("expected", Rendered(e)), P("received", Rendered(r))>>
                  \o CommonParams(cfg, message, path))>>

\* core: the tests read issue.expected
CaseInvalidTypeCore(cfg, message, path, issue) ==
  IF issue.expected = Str("undefined")
  THEN Plain(cfg, "errors.invalid_type_received_undefined", message, path)
  ELSE IF issue.expected = Str("null")
  THEN Plain(cfg, "errors.invalid_type_received_null", message, path)
  ELSE InvalidTypeElse(cfg, message, path, issue.expected, issue.received)

\* rich: the tests read issue.input
CaseInvalidTypeRich(cfg, message, path, issue) ==
  IF issue.input.kind = "undefined"
  THEN Plain(cfg, "errors.invalid_type_received_undefined", message, path)
  ELSE IF issue.input.kind = "null"
  THEN Plain(cfg, "errors.invalid_type_received_null", message, path)
  ELSE IF issue.input.kind = "infinity"
  THEN Plain(cfg, "errors.not_finite", message, path)
  ELSE IF issue.input.kind = "baddate"
  THEN Plain(cfg, "errors.invalid_date", message, path)
  ELSE InvalidTypeElse(cfg, message, path, issue.expected,
         Str(toLocaleLowerCase(getReceivedDataType(issue.input))))

CaseInvalidValueCore(cfg, message, path, issue) ==
  <<Main(cfg, "errors.invalid_literal",
         <<P("expected", jsonStringify(issue.expected))>>
         \o CommonParams(cfg, message, path))>>

CaseInvalidValueRich(cfg, message, path, issue) ==
  IF InstanceOf(issue, "ZodLiteral")
  THEN <<Main(cfg, "errors.invalid_literal",
              <<P("expected", Str(joinValues(issue.values, " | ")))>>
              \o CommonParams(cfg, message, path))>>
  ELSE IF InstanceOf(issue, "ZodEnum")
  THEN <<Main(cfg, "errors.invalid_enum_value",
              <<P("options", Str(joinValues(issue.values, " | "))),
                P("received", issue.input)>>
              \o CommonParams(cfg, message, path))>>
  ELSE <<>>

CaseUnrecognizedKeys(cfg, message, path, issue) ==
  <<Main(cfg, "errors.unrecognized_keys",
         <<P("keys", Str(joinValues(issue.keys, ", "))),
           P("count", Num(Len(issue.keys)))>>
         \o CommonParams(cfg, message, path))>>

\* issue.inst.def.options.map(opt => opt.def.shape[discriminator].def.values[0])
DiscriminatorOptions(issue) ==
  [i \in 1..Len(issue.branches) |->
     IF Len(issue.branches[i]) > 0 THEN issue.branches[i][1] ELSE Undef]

CaseInvalidUnionCore(cfg, message, path, issue) ==
  Plain(cfg, "errors.invalid_union", message, path)

CaseInvalidUnionRich(cfg, message, path, issue) ==
  IF InstanceOf(issue, "ZodDiscriminatedUnion")
  THEN <<Main(cfg, "errors.invalid_union_discriminator",
              <<P("options", Str(joinValues(DiscriminatorOptions(issue), " | ")))>>
              \o CommonParams(cfg, message, path))>>
  ELSE IF InstanceOf(issue, "ZodUnion")
  THEN Plain(cfg, "errors.invalid_union", message, path)
  ELSE Plain(cfg, "errors.invalid_union", message, path)

\* core: startsWith: issue.format and endsWith: issue.format
StartsWithCore(issue) == Str(issue.format)
EndsWithCore(issue) == Str(issue.format)
\* rich: startsWith: issue.prefix and endsWith: issue.suffix
StartsWithRich(issue) == issue.prefix
EndsWithRich(issue) == issue.suffix

\* case "invalid_format", the same in both variants but for the two values above
CaseInvalidFormat(variant, cfg, message, path, issue) ==
  IF issue.format = "date"
  THEN Plain(cfg, "errors.invalid_date", message, path)
  ELSE IF issue.format = "starts_with"
  THEN <<Main(cfg, "errors.invalid_string.startsWith",
              <<P("startsWith", IF variant = "core" THEN StartsWithCore(issue)
                                ELSE StartsWithRich(issue))>>
              \o CommonParams(cfg, message, path))>>
  ELSE IF issue.format = "ends_with"
  THEN <<Main(cfg, "errors.invalid_string.endsWith",
              <<P("endsWith", IF variant = "core" THEN EndsWithCore(issue)
                              ELSE EndsWithRich(issue))>>
              \o CommonParams(cfg, message, path))>>
  ELSE LET v == Call("validation", cfg.t, "validations." \o issue.format,
                     Obj(<<P("defaultValue", Str(issue.format)), P("ns", cfg.ns)>>))
       IN <<v, Main(cfg, "errors.invalid_string." \o issue.format,
                    <<P("validation", Rendered(v))>> \o CommonParams(cfg, message, path))>>

\* mutant: the inclusive flag is tested before the exact flag
BoundKind_InclusiveFirst(issue) ==
  IF issue.inclusive THEN "inclusive"
  ELSE IF issue.exact THEN "exact" ELSE "not_inclusive"

\* issue.exact ? "exact" : issue.inclusive ? "inclusive" : "not_inclusive"
BoundKind(issue) ==
  IF issue.exact THEN "exact"
  ELSE IF issue.inclusive THEN "inclusive" ELSE "not_inclusive"

\* issue.origin === "date" ? new Date(Number(bound)) : bound
BoundValue(issue, bound) ==
  IF issue.origin = "date" THEN DateOf(NumberOf(bound)) ELSE bound

\* case "too_small" (name = "minimum") and case "too_big" (name = "maximum")
CaseBound(cfg, message, path, issue, code, name, bound) ==
  LET b == BoundValue(issue, bound)
  IN <<Main(cfg, "errors." \o code \o "." \o issue.origin \o "." \o BoundKind(issue),
            <<P(name, b), P("count", IF TypeOf(b) = "number" THEN b ELSE Undef)>>
            \o CommonParams(cfg, message, path))>>

\* mutant: the values are spread after ns, defaultValue and the path fragment
CaseCustom_ValuesLast(cfg, message, path, issue) ==
  LET kv == getKeyAndValues(issue.i18n, "errors.custom")
  IN <<Main(cfg, kv.key, CommonParams(cfg, message, path) \o <<kv.values>>)>>

CaseCustom(cfg, message, path, issue) ==
  LET kv == getKeyAndValues(issue.i18n, "errors.custom")
  IN <<Main(cfg, kv.key, <<kv.values>> \o CommonParams(cfg, message, path))>>

CaseNotMultipleOf(cfg, message, path, issue) ==
  <<Main(cfg, "errors.not_multiple_of",
         <<P("multipleOf", issue.divisor)>> \o CommonParams(cfg, message, path))>>

\* mutant: an unlisted code falls into the custom case instead of doing nothing
Switch_DefaultIsCustom(variant, cfg, message, path, issue) ==
  CASE issue.code = "invalid_type" ->
         IF variant = "core" THEN CaseInvalidTypeCore(cfg, message, path, issue)
         ELSE CaseInvalidTypeRich(cfg, message, path, issue)
    [] issue.code = "invalid_value" ->
         IF variant = "core" THEN CaseInvalidValueCore(cfg, message, path, issue)
         ELSE CaseInvalidValueRich(cfg, message, path, issue)
    [] issue.code = "unrecognized_keys" -> CaseUnrecognizedKeys(cfg, message, path, issue)
    [] issue.code = "invalid_union" ->
         IF variant = "core" THEN CaseInvalidUnionCore(cfg, message, path, issue)
         ELSE CaseInvalidUnionRich(cfg, message, path, issue)
    [] issue.code = "invalid_format" -> CaseInvalidFormat(variant, cfg, message, path, issue)
    [] issue.code = "too_small" ->
         CaseBound(cfg, message, path, issue, "too_small", "minimum", issue.minimum)
    [] issue.code = "too_big" ->
         CaseBound(cfg, message, path, issue, "too_big", "maximum", issue.maximum)
    [] issue.code = "custom" -> CaseCustom(cfg, message, path, issue)
    [] issue.code = "not_multiple_of" -> CaseNotMultipleOf(cfg, message, path, issue)
    [] OTHER -> CaseCustom(cfg, message, path, issue)

\* switch (issue.code) { ... default: }
Switch(variant, cfg, message, path, issue) ==
  CASE issue.code = "invalid_type" ->
         IF variant = "core" THEN CaseInvalidTypeCore(cfg, message, path, issue)
         ELSE CaseInvalidTypeRich(cfg, message, path, issue)
    [] issue.code = "invalid_value" ->
         IF variant = "core" THEN CaseInvalidValueCore(cfg, message, path, issue)
         ELSE CaseInvalidValueRich(cfg, message, path, issue)
    [] issue.code = "unrecognized_keys" -> CaseUnrecognizedKeys(cfg, message, path, issue)
    [] issue.code = "invalid_union" ->
         IF variant = "core" THEN CaseInvalidUnionCore(cfg, message, path, issue)
         ELSE CaseInvalidUnionRich(cfg, message, path, issue)
    [] issue.code = "invalid_format" -> CaseInvalidFormat(variant, cfg, message, path, issue)
    [] issue.code = "too_small" ->
         CaseBound(cfg, message, path, issue, "too_small", "minimum", issue.minimum)
    [] issue.code = "too_big" ->
         CaseBound(cfg, message, path, issue, "too_big", "maximum", issue.maximum)
    [] issue.code = "custom" -> CaseCustom(cfg, message, path, issue)
    [] issue.code = "not_multiple_of" -> CaseNotMultipleOf(cfg, message, path, issue)
    [] OTHER -> <<>>

\* the closure makeZodI18nMap(option) returns, applied to one issue: the
\* renderer calls it makes and the message it returns
ErrorMap(variant, option, i18nextT, issue) ==
  LET cfg == Resolve(option, i18nextT)
      message == Fallback(variant, issue)
      path == PathFragment(variant, cfg, issue)
      pathCalls == IF PathHandled(variant, cfg, issue)
                   THEN <<PathCall(cfg, issue)>> ELSE <<>>
      cs == Switch(variant, cfg, message, path, issue)
  IN [calls |-> pathCalls \o cs,
      message |-> IF Len(cs) = 0 THEN message
                  ELSE LET m == cs[Len(cs)] IN Render(m.t, m.key, m.params)]

\* ------------------------------------------------- the issues explored
RECURSIVE SeqsUpTo(_, _)
\* all sequences over S of length 0..n
SeqsUpTo(S, n) ==
  IF n = 0 THEN {<<>>}
  ELSE LET shorter == SeqsUpTo(S, n - 1)
       IN shorter \cup {Append(q, x) : q \in {r \in shorter : Len(r) = n - 1}, x \in S}
NonEmptySeqs(S, n) == SeqsUpTo(S, n) \ {<<>>}

\* issue.path: undefined, or a sequence of string and number segments
Paths ==
  {[has |-> FALSE, segs |-> <<>>]} \cup
  [has : {TRUE}, segs : SeqsUpTo({Str("user"), Num(0)}, MaxPathLen)]
Messages == {Undef, Str("Required")}

\* the values a custom issue passes as params.i18n.values
ValueRecords ==
  { EmptyObj,
    P("x", Num(1)),
    P("ns", Str("mine")),
    P("defaultValue", Str("dv")),
    P("context", Str("c")) @@ P("path", Str("p")),
    P("x", Num(1)) @@ P("ns", Str("mine")) @@ P("defaultValue", Str("dv"))
      @@ P("context", Str("c")) @@ P("path", Str("p")) }

InvalidTypeIssues ==
  {[BaseIssue EXCEPT !.code = "invalid_type", !.expected = Str(e), !.input = i] :
     e \in {"string", "undefined", "null"},
     i \in {Undef, Null, Infinity, InvalidDate, DateOf(0), Str("x"), Num(1), NaNv}}
InvalidValueIssues ==
  {[BaseIssue EXCEPT !.code = "invalid_value", !.traits = tr, !.values = vs,
                     !.input = Str("z")] :
     tr \in {{"ZodLiteral"}, {"ZodEnum"}, {}},
     vs \in NonEmptySeqs({Str("a"), Num(1)}, MaxKeys)}
UnrecognizedKeysIssues ==
  {[BaseIssue EXCEPT !.code = "unrecognized_keys", !.keys = ks] :
     ks \in NonEmptySeqs({Str("a"), Str("b")}, MaxKeys)}
InvalidUnionIssues ==
  {[BaseIssue EXCEPT !.code = "invalid_union", !.traits = tr] :
     tr \in {{"ZodUnion"}, {}}}
  \cup
  {[BaseIssue EXCEPT !.code = "invalid_union",
                     !.traits = {"ZodUnion", "ZodDiscriminatedUnion"},
                     !.branches = bs] :
     bs \in NonEmptySeqs({<<Str("a")>>, <<Num(1)>>, <<Str("b"), Str("a")>>}, MaxKeys)}
InvalidFormatIssues ==
  {[BaseIssue EXCEPT !.code = "invalid_format", !.format = f] : f \in {"date", "email"}}
  \cup
  {[BaseIssue EXCEPT !.code = "invalid_format", !.format = "starts_with",
                     !.prefix = Str(x)] : x \in {"foo", "starts_with"}}
  \cup
  {[BaseIssue EXCEPT !.code = "invalid_format", !.format = "ends_with",
                     !.suffix = Str(x)] : x \in {"bar"}}
BoundCases ==
  {<<"string", Num(5)>>, <<"number", BigInt(7)>>, <<"date", Num(5)>>}
TooSmallIssues ==
  {[BaseIssue EXCEPT !.code = "too_small", !.origin = b[1], !.minimum = b[2],
                     !.inclusive = inc, !.exact = ex] :
     b \in BoundCases, inc \in BOOLEAN, ex \in BOOLEAN}
TooBigIssues ==
  {[BaseIssue EXCEPT !.code = "too_big", !.origin = b[1], !.maximum = b[2],
                     !.inclusive = inc, !.exact = ex] :
     b \in BoundCases, inc \in BOOLEAN, ex \in BOOLEAN}
CustomIssues ==
  {[BaseIssue EXCEPT !.code = "custom", !.i18n = p] :
     p \in {NoI18n, I18nString("my.key"), I18nOther} \cup
           {I18nRecord(k, v) :
              k \in {Absent, Field(Str("my.key")), Field(Num(3))},
              v \in {ValuesAbsent, ValuesOther} \cup {ValuesRecord(r) : r \in ValueRecords}}}
NotMultipleOfIssues ==
  {[BaseIssue EXCEPT !.code = "not_multiple_of", !.divisor = d] : d \in {Num(3), BigInt(2)}}
KnownCodes ==
  {"invalid_type", "invalid_value", "unrecognized_keys", "invalid_union",
   "invalid_format", "too_small", "too_big", "custom", "not_multiple_of"}
OtherIssues ==
  {[BaseIssue EXCEPT !.code = c] : c \in {"invalid_key", "invalid_element", "exotic"}}

IssueBodies ==
  InvalidTypeIssues \cup InvalidValueIssues \cup UnrecognizedKeysIssues \cup
  InvalidUnionIssues \cup InvalidFormatIssues \cup TooSmallIssues \cup TooBigIssues \cup
  CustomIssues \cup NotMultipleOfIssues \cup OtherIssues
Issues ==
  {[b EXCEPT !.path = p, !.message = m] : b \in IssueBodies, p \in Paths, m \in Messages}

\* ------------------------------------------------- the error-extraction helpers
\* a thrown value: its class, and the issues' messages when it carries issues
Thrown(cls, issues) == [cls |-> cls, issues |-> issues]
NoThrown == Thrown("", <<>>)
IssueMessages == {"Required", "Invalid value", "tA:errors.custom", "Invalid input (exotic)"}
IssueLists == SeqsUpTo(IssueMessages, MaxIssues)

\* what a call ends in: a returned value or a raised one
Returned(v) == [kind |-> "return", value |-> v, thrown |-> NoThrown]
Raised(e) == [kind |-> "throw", value |-> Undef, thrown |-> e]
NotCalled == [kind |-> "", value |-> Undef, thrown |-> NoThrown]

\* issues[0].message (reading .message of undefined raises a TypeError)
FirstMessage(issues) ==
  IF Len(issues) > 0 THEN Returned(Str(issues[1]))
  ELSE Raised(Thrown("TypeError", <<>>))

\* a safeParse result: success, or an error carrying issues
ParseResults ==
  {[error |-> FALSE, issues |-> <<>>]} \cup [error : {TRUE}, issues : IssueLists]

getErrorMessage(parsed) ==
  IF parsed.error THEN FirstMessage(parsed.issues)
  ELSE Raised(Thrown("Error", <<>>))

\* what the callback does: return, or throw a value
CallbackOutcomes ==
  {NotCalled} \cup
  {Raised(Thrown("$ZodError", is)) : is \in IssueLists} \cup
  {Raised(Thrown(c, <<>>)) : c \in {"Error", "RangeError", "string"}} \cup
  {Raised(Thrown("ForeignValidationError", <<m>>)) : m \in IssueMessages}

\* mutant: any thrown value that carries issues is taken for the library's error
getErrorMessageFromZodError_DuckTyped(callback) ==
  IF callback.kind # "throw" THEN Returned(Undef)
  ELSE IF Len(callback.thrown.issues) > 0 THEN FirstMessage(callback.thrown.issues)
  ELSE Raised(callback.thrown)

getErrorMessageFromZodError(callback) ==
  IF callback.kind # "throw" THEN Returned(Undef)
  ELSE IF callback.thrown.cls = "$ZodError" THEN FirstMessage(callback.thrown.issues)
  ELSE Raised(callback.thrown)

\* ------------------------------------------------- state
VARIABLES
  variant,    \* which source file's makeZodI18nMap is loaded: "core" or "rich"
  option,     \* the caller's option object the current mapper closes over
  i18nextT,   \* the process-wide default renderer, i18next.t
  built,      \* history: option and i18next.t as they were at construction
  changes,    \* history: caller mutations since construction
  pc,         \* "idle", or "mapped" right after the mapper returned
  issue,      \* the issue of the invocation that just returned
  calls,      \* the renderer calls that invocation made, in order
  message,    \* the message it returned
  helper      \* the last helper call: its name, argument and outcome

vars == <<variant, option, i18nextT, built, changes, pc, issue, calls, message, helper>>

NoHelper == [op |-> "", parsed |-> [error |-> FALSE, issues |-> <<>>],
             callback |-> NotCalled, outcome |-> NotCalled]

\* module load: export const zodI18nMap = makeZodI18nMap()
Init ==
  /\ variant \in {"core", "rich"}
  /\ option = NoOption
  /\ i18nextT = "i18next"
  /\ built = [option |-> NoOption, t |-> "i18next"]
  /\ changes = 0
  /\ pc = "idle"
  /\ issue = BaseIssue
  /\ calls = <<>>
  /\ message = ""
  /\ helper = NoHelper

\* makeZodI18nMap(opt): returns the closure; nothing is read from opt yet
Make(opt) ==
  /\ pc = "idle"
  /\ option' = opt
  /\ built' = [option |-> opt, t |-> i18nextT]
  /\ changes' = 0
  /\ UNCHANGED <<variant, i18nextT, pc, issue, calls, message, helper>>

\* the validation library calls the mapper with one issue
Invoke(i) ==
  /\ pc = "idle"
  /\ LET r == ErrorMap(variant, option, i18nextT, i)
     IN /\ calls' = r.calls
        /\ message' = r.message
  /\ issue' = i
  /\ pc' = "mapped"
  /\ UNCHANGED <<variant, option, i18nextT, built, changes, helper>>

\* the validation library takes the returned message; the mapper is idle again
Deliver ==
  /\ pc = "mapped"
  /\ pc' = "idle"
  /\ issue' = BaseIssue
  /\ calls' = <<>>
  /\ message' = ""
  /\ UNCHANGED <<variant, option, i18nextT, built, changes, helper>>

\* the caller assigns a field of the option object it passed
SetOption(opt) ==
  /\ pc = "idle"
  /\ changes < MaxChanges
  /\ option.given /\ opt.given
  /\ opt # option
  /\ \/ opt = [option EXCEPT !.t = opt.t]
     \/ opt = [option EXCEPT !.ns = opt.ns]
     \/ opt = [option EXCEPT !.handlePath = opt.handlePath]
  /\ option' = opt
  /\ changes' = changes + 1
  /\ UNCHANGED <<variant, i18nextT, built, pc, issue, calls, message, helper>>

\* the process-wide renderer i18next.t is replaced
SetDefaultRenderer(t) ==
  /\ pc = "idle"
  /\ changes < MaxChanges
  /\ t # i18nextT
  /\ i18nextT' = t
  /\ changes' = changes + 1
  /\ UNCHANGED <<variant, option, built, pc, issue, calls, message, helper>>

GetErrorMessage(parsed) ==
  /\ helper' = [NoHelper EXCEPT !.op = "getErrorMessage", !.parsed = parsed,
                                !.outcome = getErrorMessage(parsed)]
  /\ UNCHANGED <<variant, option, i18nextT, built, changes, pc, issue, calls, message>>

GetErrorMessageFromZodError(callback) ==
  /\ helper' = [NoHelper EXCEPT !.op = "getErrorMessageFromZodError",
                                !.callback = callback,
                                !.outcome = getErrorMessageFromZodError(callback)]
  /\ UNCHANGED <<variant, option, i18nextT, built, changes, pc, issue, calls, message>>

\* the mapper under every configuration and every issue
Next ==
  \/ \E opt \in Options : Make(opt)
  \/ \E i \in Issues : Invoke(i)
  \/ Deliver
Spec == Init /\ [][Next]_vars

\* a mapper whose caller keeps changing the option object and i18next.t
LifeIssues ==
  {i \in Issues : /\ i.code \in {"not_multiple_of", "invalid_format", "exotic"}
                  /\ i.message = Undef
                  /\ i.path.has /\ Len(i.path.segs) = 1}
NextLife ==
  \/ \E opt \in Options : Make(opt)
  \/ \E opt \in Options : SetOption(opt)
  \/ \E t \in DefaultRenderers : SetDefaultRenderer(t)
  \/ \E i \in LifeIssues : Invoke(i)
  \/ Deliver
SpecLife == Init /\ [][NextLife]_vars

\* the two helpers
NextHelpers ==
  \/ \E parsed \in ParseResults : GetErrorMessage(parsed)
  \/ \E callback \in CallbackOutcomes : GetErrorMessageFromZodError(callback)
SpecHelpers == Init /\ [][NextHelpers]_vars

\* ------------------------------------------------- observations
Mapped == pc = "mapped"
HasMain == Len(calls) > 0 /\ calls[Len(calls)].role = "main"
MainCall == calls[Len(calls)]
MainHas(name) == name \in DOMAIN MainCall.params
PathLookups == {k \in 1..Len(calls) : calls[k].role = "path"}
Config == Resolve(option, i18nextT)
PathNonEmpty == issue.path.has /\ Len(issue.path.segs) > 0
CustomValues == issue.i18n.values.rec

\* ------------------------------------------------- C1
\* a custom issue whose params.i18n is a record with a string key and a
\* record values
C1_Case ==
  /\ Mapped /\ issue.code = "custom"
  /\ issue.i18n.kind = "record"
  /\ issue.i18n.key.has /\ issue.i18n.key.val.kind = "string"
  /\ issue.i18n.values.kind = "record"

\* C1 as stated: for a custom issue with params.i18n = {key: K, values: V} the
\* main render call uses key K and every entry of V reaches the renderer with
\* V's value, overriding the mapper's ns, defaultValue, context and path.
C1_Original ==
  C1_Case =>
    /\ HasMain /\ MainCall.key = issue.i18n.key.val.s
    /\ \A n \in DOMAIN CustomValues : MainHas(n) /\ MainCall.params[n] = CustomValues[n]

\* the parameter names the mapper writes after spreading V
C1_Shadowed ==
  {"ns", "defaultValue"} \cup (IF PathLookups # {} THEN {"context", "path"} ELSE {})

\* C1 amended: the main render call uses key K, and every entry of V reaches
\* the renderer with V's value unless it is named ns or defaultValue, or is
\* named context or path while the mapper makes a path lookup for the issue;
\* those names carry the mapper's own values instead of V's.
C1_Amended ==
  C1_Case =>
    /\ HasMain /\ MainCall.key = issue.i18n.key.val.s
    /\ \A n \in DOMAIN CustomValues \ C1_Shadowed :
         MainHas(n) /\ MainCall.params[n] = CustomValues[n]
    /\ MainCall.params["ns"] = Config.ns
    /\ MainCall.params["defaultValue"].kind = "string"
    /\ MainCall.params["defaultValue"].s \in {"Invalid value", "Required", enLocaleError(issue)}
    /\ PathLookups # {} =>
         /\ MainCall.params["context"] = Config.handlePath.context
         /\ \E k \in PathLookups :
              MainCall.params["path"] =
                Str(Render(calls[k].t, calls[k].key, calls[k].params))

\* a custom issue whose values name x, ns and path is mapped with a path lookup
C1_Witness ==
  /\ C1_Case /\ PathLookups # {}
  /\ {"x", "ns", "path"} \subseteq DOMAIN CustomValues
  /\ MainCall.key = "my.key"
  /\ MainCall.params["x"] = Num(1)
  /\ MainCall.params["ns"] # CustomValues["ns"]

\* ------------------------------------------------- C2
\* C2: the main render call carries context and path exactly when path
\* handling is enabled and issue.path is non-empty; otherwise no path lookup
\* is made and the main call receives neither.  (Stated for the parameters
\* the mapper itself contributes: custom values naming context or path are
\* left out.)
C2_Claim ==
  (Mapped /\ HasMain /\ DOMAIN CustomValues \cap {"context", "path"} = {}) =>
    IF Config.handlePath.on /\ PathNonEmpty
    THEN MainHas("context") /\ MainHas("path")
    ELSE PathLookups = {} /\ ~MainHas("context") /\ ~MainHas("path")

\* ------------------------------------------------- C3
\* C3: every invocation uses the renderer, namespace and path handling in
\* force when makeZodI18nMap(option) returned, whatever the caller changes
\* afterwards in the option object or in i18next.t.
C3_Claim ==
  Mapped => calls = ErrorMap(variant, built.option, built.t, issue).calls

\* ------------------------------------------------- C4
\* the namespace is unset: no option, no ns field, or ns: undefined (and no
\* namespace of its own for the path lookup)
C4_NsUnset ==
  /\ ~option.given \/ ~option.ns.has \/ option.ns.val = Undef
  /\ ~(option.given /\ option.handlePath.has /\ option.handlePath.val.ns.has)

\* C4: when the namespace is unset, every render call (main, nested type or
\* validation lookup, path lookup) receives ns = "zod".
C4_Claim ==
  (Mapped /\ C4_NsUnset) =>
    \A k \in 1..Len(calls) : calls[k].params["ns"] = Str("zod")

\* ------------------------------------------------- C5
C5_Key(input) ==
  CASE input.kind = "undefined" -> "errors.invalid_type_received_undefined"
    [] input.kind = "null" -> "errors.invalid_type_received_null"
    [] input.kind = "infinity" -> "errors.not_finite"
    [] input.kind = "baddate" -> "errors.invalid_date"
    [] OTHER -> "errors.invalid_type"

\* C5: for an invalid_type issue the key of the main render call is decided
\* by issue.input alone, whatever the expected type.
C5_Claim ==
  (Mapped /\ issue.code = "invalid_type") =>
    HasMain /\ MainCall.key = C5_Key(issue.input)

\* ------------------------------------------------- C6
C6_Case == Mapped /\ issue.code = "too_small" /\ issue.origin = "string" /\ issue.inclusive

\* C6 as stated: too_small, origin "string", inclusive = true, whatever exact:
\* key errors.too_small.string.inclusive and minimum = issue.minimum.
C6_Original ==
  C6_Case =>
    /\ HasMain /\ MainCall.key = "errors.too_small.string.inclusive"
    /\ MainCall.params["minimum"] = issue.minimum

\* C6 amended: too_small, origin "string", inclusive = true and exact unset
\* or false gives key errors.too_small.string.inclusive; with exact = true
\* the key is errors.too_small.string.exact; in both cases minimum equals
\* the issue's minimum.
C6_Amended ==
  C6_Case =>
    /\ HasMain
    /\ MainCall.key = IF issue.exact THEN "errors.too_small.string.exact"
                      ELSE "errors.too_small.string.inclusive"
    /\ MainCall.params["minimum"] = issue.minimum

\* an inclusive, non-exact string minimum of 5 is mapped
C6_Witness ==
  /\ C6_Case /\ ~issue.exact
  /\ MainCall.key = "errors.too_small.string.inclusive"
  /\ MainCall.params["minimum"] = Num(5)

\* ------------------------------------------------- C7
\* C7: invalid_format starts_with renders errors.invalid_string.startsWith
\* with startsWith = issue.prefix; ends_with renders
\* errors.invalid_string.endsWith with endsWith = issue.suffix.
C7_Claim ==
  /\ (Mapped /\ issue.code = "invalid_format" /\ issue.format = "starts_with") =>
       /\ HasMain /\ MainCall.key = "errors.invalid_string.startsWith"
       /\ MainCall.params["startsWith"] = issue.prefix
  /\ (Mapped /\ issue.code = "invalid_format" /\ issue.format = "ends_with") =>
       /\ HasMain /\ MainCall.key = "errors.invalid_string.endsWith"
       /\ MainCall.params["endsWith"] = issue.suffix

\* ------------------------------------------------- C8
\* C8: an issue whose code is none of the nine mapped codes makes no main
\* render call, and the returned message is the generic fallback computed
\* before the switch (issue.message ?? "Invalid value" in the core variant,
\* the English baseline message in the rich one), whatever the renderer and
\* the path handling are.
C8_UnknownCode ==
  (Mapped /\ issue.code \notin KnownCodes) =>
    /\ \A k \in 1..Len(calls) : calls[k].role # "main"
    /\ variant = "core" =>
         message = IF issue.message = Undef THEN "Invalid value" ELSE issue.message.s
    /\ variant = "rich" => message = enLocaleError(issue)

\* an unknown code is mapped by a mapper with a supplied renderer that made
\* a path lookup
C8_Witness ==
  /\ Mapped /\ issue.code = "exotic"
  /\ PathLookups # {} /\ Config.t = "tA"
  /\ message \in {"Required", "Invalid input (exotic)"}

\* ------------------------------------------------- C9
\* C9: getErrorMessageFromZodError returns the first issue's message when the
\* callback throws the library's error, and re-raises any other thrown value
\* unchanged; getErrorMessage returns the first issue's message when the
\* result carries an error and raises a generic Error when it does not.
C9_Helpers ==
  /\ helper.op = "getErrorMessageFromZodError" =>
       LET e == helper.callback.thrown IN
       /\ (helper.callback.kind = "throw" /\ e.cls = "$ZodError" /\ Len(e.issues) > 0)
            => helper.outcome = Returned(Str(e.issues[1]))
       /\ (helper.callback.kind = "throw" /\ e.cls # "$ZodError")
            => helper.outcome = Raised(e)
  /\ helper.op = "getErrorMessage" =>
       /\ (helper.parsed.error /\ Len(helper.parsed.issues) > 0)
            => helper.outcome = Returned(Str(helper.parsed.issues[1]))
       /\ ~helper.parsed.error
            => helper.outcome.kind = "throw" /\ helper.outcome.thrown.cls = "Error"

\* a foreign error that carries issues went through the wrapper and came out
\* as thrown
C9_Witness ==
  /\ helper.op = "getErrorMessageFromZodError"
  /\ helper.callback.thrown.cls = "ForeignValidationError"
  /\ helper.outcome.kind = "throw"
  /\ helper.outcome.thrown.issues = <<"Required">>

\* ------------------------------------------------- C10
\* each branch's discriminator literal, strings single-quoted, joined by " | "
C10_Options ==
  Join([i \in 1..Len(issue.branches) |->
          LET v == issue.branches[i][1]
          IN IF v.kind = "string" THEN "'" \o v.s \o "'" ELSE ToString(v.n)], " | ")

\* C10: an invalid_union issue raised by a discriminated union renders
\* errors.invalid_union_discriminator with options = the branches'
\* discriminator literals in branch order, quoted and joined by " | "; every
\* other invalid_union issue renders errors.invalid_union with no options.
C10_Claim ==
  (Mapped /\ issue.code = "invalid_union") =>
    /\ HasMain
    /\ IF "ZodDiscriminatedUnion" \in issue.traits
       THEN /\ MainCall.key = "errors.invalid_union_discriminator"
            /\ MainHas("options")
            /\ MainCall.params["options"] = Str(C10_Options)
       ELSE MainCall.key = "errors.invalid_union" /\ ~MainHas("options")

====
